---- MODULE Spec2Model ----
(***************************************************************************)
(* Fixed-timestep simulation core of GroupAssignment/group.js: Body,       *)
(* Simulation.simulate and the per-step hook Group.update_state.           *)
(*                                                                         *)
(* Numbers.  Time is counted in ticks of 0.005 s, Sec to the second; frame  *)
(* times are whole ticks and time_scale is a whole power of 5 (the         *)
(* "Slow down time" button is followed down to 1), so time arithmetic is   *)
(* exact.                                                                  *)
(* Lengths are counted in 1/Res of a world unit, velocities in 1/Res of a  *)
(* world unit per second and angles in 1/Res radian.  A product that does  *)
(* not fall on the grid is rounded down to it (\div), as a double rounds   *)
(* to its own grid.                                                        *)
(***************************************************************************)
EXTENDS Integers, Sequences, FiniteSets, TLC

\* ------------------------------------------------------------------ bounds
MaxScaleExp == 1
MaxSteps == 9
MaxClicks == 1
\* fixed steps a Group has already run, its scene still empty, when the model
\* starts to follow it (the hook spawns a body on every 8th invocation)
WarmSteps == 6

\* frame times handed to simulate(), in ticks
FrameTimes == {-32, -4, 0, 4, 10, 24}

RECURSIVE Pow5(_)
Pow5(n) == IF n = 0 THEN 1 ELSE 5 * Pow5(n - 1)

\* the fixed step dt = 1/20 s and the accumulator clamp 0.1 s, in ticks
DT == 10
CLAMP == 20
\* ticks in one second
Sec == 20 * DT
\* grid of lengths, velocities and angles: dt * v is whole for every velocity
\* the scene hands out and for the hook's two gravity terms
Res == 20 * Sec

\* ------------------------------------------------------------- arithmetic
Min(a, b) == IF a < b THEN a ELSE b
Max(a, b) == IF a > b THEN a ELSE b
Abs(x) == IF x < 0 THEN -x ELSE x
Sign(x) == IF x > 0 THEN 1 ELSE IF x < 0 THEN -1 ELSE 0


\* 3-vectors
vec3(x, y, z) == <<x, y, z>>
plus(a, b) == [i \in 1..3 |-> a[i] + b[i]]
\* v.times(s) for a duration s in ticks
times(v, s) == [i \in 1..3 |-> (v[i] * s) \div Sec]
\* v.times(n/d) for a plain factor
scaled(v, n, d) == [i \in 1..3 |-> (v[i] * n) \div d]
\* a.mix(b, alpha) = a*(1-alpha) + b*alpha, alpha = num/DT
mix(a, b, num) == [i \in 1..3 |-> a[i] + ((b[i] - a[i]) * num) \div DT]

\* ------------------------------------------------------------------- Body
\* A display rotation is the entry-wise blend of two rotations about the body's
\* spin axis, (1 - num/DT) * R(from) + (num/DT) * R(to); R(a) is Turn(a).
Turn(a) == [from |-> a, to |-> a, num |-> 0]

\* new Body(shape, material, size, user_projectile); id is the object's identity
Body(id, size, user_projectile) ==
    [id |-> id, size |-> size, user_projectile |-> user_projectile, hit |-> FALSE]

\* the boundary counts as outside
intersect_cube_open(p, margin) ==
    \A i \in DOMAIN p : p[i] > -Res - margin /\ p[i] < Res + margin

\* static intersect_cube(p, margin = 0), p and margin in 1/Res
intersect_cube(p, margin) ==
    \A i \in DOMAIN p : p[i] >= -Res - margin /\ p[i] <= Res + margin

\* p.dot(q), in 1/Res^2
dot(p, q) == p[1] * q[1] + p[2] * q[2] + p[3] * q[3]

\* static intersect_sphere(p, margin = 0)
intersect_sphere(p, margin) == dot(p, p) < (Res + margin) * Res

\* emplace(location_matrix, linear_velocity, angular_velocity) for a
\* location_matrix that is the translation to `location`
emplace(b, location, linear_velocity, angular_velocity) ==
    [id |-> b.id, size |-> b.size, user_projectile |-> b.user_projectile,
     hit |-> b.hit,
     center |-> location,
     rotation |-> 0,
     previous |-> [center |-> location, rotation |-> 0],
     drawn_location |-> [center |-> location, rotation |-> Turn(0), size |-> 1],
     linear_velocity |-> linear_velocity,
     angular_velocity |-> angular_velocity,
     \* history: the pose and velocity at emplace, the number of advance() calls
     \* since, the velocity components the hook has assigned, and the hook
     \* invocation (value of counter) that last collision-tested the body
     born |-> [center |-> location, linear_velocity |-> linear_velocity],
     advances |-> 0,
     touched |-> {},
     tested_at |-> 0]

\* previous.rotation shares the matrix that pre_multiply then changes
advance_aliased(b, time_amount) ==
    [b EXCEPT !.previous = [center |-> b.center,
                            rotation |-> b.rotation
                                + (time_amount * b.angular_velocity) \div Sec],
              !.center = plus(b.center, times(b.linear_velocity, time_amount)),
              !.rotation = b.rotation + (time_amount * b.angular_velocity) \div Sec,
              !.advances = b.advances + 1]

\* the step is taken from the previous centre, not the current one
advance_from_previous(b, time_amount) ==
    [b EXCEPT !.previous = [center |-> b.center, rotation |-> b.rotation],
              !.center = plus(b.previous.center,
                              times(b.linear_velocity, time_amount)),
              !.rotation = b.rotation + (time_amount * b.angular_velocity) \div Sec,
              !.advances = b.advances + 1]

advance(b, time_amount) ==
    [b EXCEPT !.previous = [center |-> b.center, rotation |-> b.rotation],
              !.center = plus(b.center, times(b.linear_velocity, time_amount)),
              !.rotation = b.rotation + (time_amount * b.angular_velocity) \div Sec,
              !.advances = b.advances + 1]

blend_rotation(b, num) ==
    IF num = 0 \/ b.previous.rotation = b.rotation
    THEN Turn(b.previous.rotation)
    ELSE [from |-> b.previous.rotation, to |-> b.rotation, num |-> num]

\* the blend starts from the place drawn last, not from previous.center
blend_state_from_drawn(b, num) ==
    [b EXCEPT !.drawn_location =
        [center |-> mix(b.drawn_location.center, b.center, num),
         rotation |-> blend_rotation(b, num),
         size |-> b.size]]

blend_state(b, num) ==
    [b EXCEPT !.drawn_location =
        [center |-> mix(b.previous.center, b.center, num),
         rotation |-> blend_rotation(b, num),
         size |-> b.size]]

\* The two fixed bodies of the scene, never in `bodies`, never advanced or
\* blended: the volume each fills, as a box around its centre (the 1.5 of
\* line 83 stretches y).
opm == [center |-> vec3(0, 0, 0), extent |-> vec3(15 * Res, 22 * Res, 15 * Res)]
pillars == [center |-> vec3(-20 * Res, 0, -10 * Res),
            extent |-> vec3(10 * Res, 150 * Res, 10 * Res)]

\* a.check_if_colliding(b, collider): a point of b, moved into the frame of
\* a.inverse, falls into a's unit volume.  a.inverse is the inverse of
\* a.drawn_location, taken at line 308 in the same pass of the hook's loop and
\* read nowhere else, so the test reads a.drawn_location.  The sample-point
\* test is abstracted to: the drawn place lies within b's box, widened by the
\* drawn size.
check_if_colliding(a, b) ==
    \A i \in 1..3 :
        Abs(a.drawn_location.center[i] - b.center[i])
            <= b.extent[i] + a.drawn_location.size * Res

\* ------------------------------------------------- Group.update_state(dt)
\* inputs of the random spawn (lines 300-302) and of a mouse click (353-370)
SpawnLocations == {vec3(50 * Res, 25 * Res, 0), vec3(44 * Res, 31 * Res, 0)}
SpawnVelocities == {vec3(0, -2 * Res, 0)}
Spins == {2000}
\* a click: the camera's place and the mouse position in [-1, 1] x [-1, 1]
\* (one flying towards opm, one leaving the scene, one inside opm's reach, one
\* inside the pillars')
Clicks == {[camera |-> vec3(0, 0, 19 * Res), mouse |-> <<0, 0>>],
           [camera |-> vec3(-49 * Res, 0, 40 * Res), mouse |-> <<-1, 1>>],
           [camera |-> vec3(-12 * Res, 0, 2 * Res), mouse |-> <<0, -1>>],
           [camera |-> vec3(-25 * Res, 0, -10 * Res), mouse |-> <<0, 0>>]}

\* dt * g for g = -9.8 (tenths = -98) and g = -4.9 (tenths = -49)
Gravity(dt, tenths) == (tenths * Res * dt) \div (10 * Sec)

\* without the early `continue`: a hit body is tested like any other
update_body_retest(a, dt, k) ==
    LET v == a.linear_velocity
        w == IF a.user_projectile
             THEN vec3(v[1], v[2] + Gravity(dt, -49), v[3])
             ELSE vec3(v[1] + Gravity(dt, -98), v[2], v[3])
        g == [a EXCEPT !.linear_velocity = w,
                       !.touched = a.touched \cup
                           (IF a.user_projectile THEN {2} ELSE {1}),
                       !.tested_at = k]
    IN  IF check_if_colliding(g, opm)
        THEN [g EXCEPT !.hit = TRUE,
                       !.linear_velocity = scaled(w, -45, 100),
                       !.touched = {1, 2, 3}]
        ELSE IF check_if_colliding(g, pillars)
        THEN [g EXCEPT !.hit = TRUE,
                       !.linear_velocity = scaled(w, -10, 100),
                       !.touched = {1, 2, 3}]
        ELSE g

\* the body of the loop of lines 306-337 for one body a, in hook invocation k
update_body(a, dt, k) ==
    LET v == a.linear_velocity
    IN  IF a.hit
        THEN [a EXCEPT !.linear_velocity =
                           vec3((v[1] * 95) \div 100, v[2] + Gravity(dt, -98),
                                (v[3] * 95) \div 100),
                       !.touched = {1, 2, 3}]
        ELSE LET w == IF a.user_projectile
                      THEN vec3(v[1], v[2] + Gravity(dt, -49), v[3])
                      ELSE vec3(v[1] + Gravity(dt, -98), v[2], v[3])
                 g == [a EXCEPT !.linear_velocity = w,
                                !.touched = a.touched \cup
                                    (IF a.user_projectile THEN {2} ELSE {1}),
                                !.tested_at = k]
             IN  IF check_if_colliding(g, opm)
                 THEN [g EXCEPT !.hit = TRUE,
                                !.linear_velocity = scaled(w, -45, 100),
                                !.touched = {1, 2, 3}]
                 ELSE IF check_if_colliding(g, pillars)
                 THEN [g EXCEPT !.hit = TRUE,
                                !.linear_velocity = scaled(w, -10, 100),
                                !.touched = {1, 2, 3}]
                 ELSE g

\* the retention predicate of line 338
in_bounds(b) == b.center[1] > -50 * Res /\ b.center[2] > -50 * Res

\* update_state on the list bs with counter already incremented to k
update_state(bs, dt, k) ==
    SelectSeq([i \in 1..Len(bs) |-> update_body(bs[i], dt, k)], in_bounds)

VARIABLES class, time_accumulator, time_scale, t, steps_taken, bodies, counter,
          pc, frame_time, idx, alpha, next_id, clicks,
          outcome, iterations, trace, entry, sum_frame_time, in_range, probe

vars == <<class, time_accumulator, time_scale, t, steps_taken, bodies, counter,
          pc, frame_time, idx, alpha, next_id, clicks,
          outcome, iterations, trace, entry, sum_frame_time, in_range, probe>>

\* ------------------------------------------------------------------ state
\* class: the class of the scene object: Simulation itself, its subclass Group,
\* or "Subclass", any other subclass, of whose update_state only this is
\* known: a call of it returns or throws, and leaves the scene's fields alone.
\* pc, frame_time, idx, alpha: where simulate() stands and its locals.
\* outcome, iterations, trace, entry, sum_frame_time, in_range record history:
\* how the latest call ended, its loop iterations, the calls made in the
\* current fixed step or blend loop, the state at the call's entry, and the sum
\* of the frame times while every call had time_scale = 1, a frame time in
\* [0, 0.1 s] and returned normally.
\* probe: a call of one of Body's static point tests, its arguments and result.
\* leaving simulate(): its locals go out of scope and the record of the call is
\* dropped
NoEntry == [bodies |-> <<>>, t |-> 0, steps_taken |-> 0, time_accumulator |-> 0]
NoProbe == [op |-> "none", p |-> <<0, 0, 0>>, margin |-> 0, result |-> FALSE]
Forget ==
    /\ frame_time' = 0
    /\ idx' = 0
    /\ alpha' = 0
    /\ iterations' = 0
    /\ trace' = <<>>
    /\ entry' = NoEntry

\* A scene just constructed (lines 101, 277), or a Group after WarmSteps calls
\* simulate(DT) on a scene nobody clicked into.
Init ==
    /\ class \in {"Simulation", "Group", "Subclass"}
    /\ time_accumulator = 0
    /\ time_scale = 1
    /\ steps_taken = IF class = "Group" THEN WarmSteps ELSE 0
    /\ t = steps_taken * DT
    /\ counter = steps_taken
    /\ sum_frame_time = steps_taken * DT
    /\ outcome = IF steps_taken > 0 THEN "returned" ELSE "none"
    /\ bodies = <<>>
    /\ pc = "idle"
    /\ frame_time = 0
    /\ idx = 0
    /\ alpha = 0
    /\ next_id = 1
    /\ clicks = 0
    /\ iterations = 0
    /\ trace = <<>>
    /\ entry = NoEntry
    /\ in_range = TRUE
    /\ probe = NoProbe

Call(op, id, arg) == [op |-> op, id |-> id, arg |-> arg]

\* "Speed up time" and "Slow down time" buttons
SpeedUpTime ==
    /\ pc = "idle"
    /\ time_scale < Pow5(MaxScaleExp)
    /\ time_scale' = time_scale * 5
    /\ UNCHANGED <<probe, class, time_accumulator, t, steps_taken, bodies, counter, pc,
                   frame_time, idx, alpha, next_id, clicks, outcome, iterations,
                   trace, entry, sum_frame_time, in_range>>

SlowDownTime ==
    /\ pc = "idle"
    /\ time_scale > 1
    /\ time_scale' = time_scale \div 5
    /\ UNCHANGED <<probe, class, time_accumulator, t, steps_taken, bodies, counter, pc,
                   frame_time, idx, alpha, next_id, clicks, outcome, iterations,
                   trace, entry, sum_frame_time, in_range>>

\* the mousedown listener of Group.display: a user projectile from the camera
MouseDown ==
    /\ class = "Group"
    /\ pc = "idle"
    /\ clicks < MaxClicks
    /\ \E c \in Clicks, spin \in Spins :
          bodies' = Append(bodies,
              emplace(Body(next_id, 2, TRUE), c.camera,
                      scaled(vec3(c.mouse[1] * Res, Max(0, c.mouse[2]) * Res, -1 * Res),
                             25, 1),
                      spin))
    /\ next_id' = next_id + 1
    /\ clicks' = clicks + 1
    /\ UNCHANGED <<probe, class, time_accumulator, time_scale, t, steps_taken, counter, pc,
                   frame_time, idx, alpha, outcome, iterations, trace, entry,
                   sum_frame_time, in_range>>

\* simulate(frame_time), lines 110-114: scale, clamp, accumulate
scaled_frame_time(ts, ft) == ts * ft
accumulate_unclamped(acc, ft) == acc + ft
accumulate(acc, ft) == acc + Min(ft, CLAMP)

\* the loop test of line 116
stepping_forward(acc) == acc >= DT
stepping(acc) == Abs(acc) >= DT

\* The calls the model follows.  The fixed steps a call is to take,
\* |accumulator| / dt, fit below MaxSteps; a call that moves the accumulator
\* away from zero step after step (the frame time and the accumulator of
\* opposite signs) has no such number and is left out.
followed(acc, ft, steps) ==
    /\ steps + Abs(acc) \div DT <= MaxSteps
    /\ stepping(acc) => Sign(ft) * Sign(acc) >= 0

Simulate ==
    /\ pc = "idle"
    /\ Abs(time_accumulator) <= MaxSteps * DT
    /\ \E ft \in FrameTimes :
          /\ frame_time' = scaled_frame_time(time_scale, ft)
          /\ time_accumulator' = accumulate(time_accumulator, frame_time')
          /\ class # "Simulation" =>
                 followed(time_accumulator', frame_time', steps_taken)
          /\ in_range' = (in_range /\ time_scale = 1
                          /\ frame_time' >= 0 /\ frame_time' <= CLAMP)
          /\ sum_frame_time' = IF in_range' THEN sum_frame_time + frame_time' ELSE 0
    /\ pc' = "while"
    /\ outcome' = "running"
    /\ iterations' = 0
    /\ trace' = <<>>
    /\ entry' = [bodies |-> bodies, t |-> t, steps_taken |-> steps_taken,
                 time_accumulator |-> time_accumulator]
    /\ UNCHANGED <<probe, class, time_scale, t, steps_taken, bodies, counter, idx, alpha,
                   next_id, clicks>>

\* the hook left out does nothing, and the step goes on
UpdateStateBase_noop ==
    /\ pc = "while"
    /\ stepping(time_accumulator)
    /\ class = "Simulation"
    /\ trace' = <<Call("update_state", 0, DT)>>
    /\ pc' = "for_advance"
    /\ idx' = 1
    /\ UNCHANGED <<probe, class, time_accumulator, time_scale, t, steps_taken, bodies,
                   counter, frame_time, alpha, next_id, clicks, outcome, iterations,
                   entry, sum_frame_time, in_range>>

\* line 118 in a Simulation that does not override update_state: the throw of
\* line 190 leaves simulate()
UpdateStateBase ==
    /\ pc = "while"
    /\ stepping(time_accumulator)
    /\ class = "Simulation"
    /\ pc' = "idle"
    /\ outcome' = "threw"
    /\ Forget
    /\ in_range' = FALSE
    /\ sum_frame_time' = 0
    /\ UNCHANGED <<probe, class, time_accumulator, time_scale, t, steps_taken, bodies,
                   counter, next_id, clicks>>

\* line 118 in another subclass: its update_state returns
UpdateStateSubclass ==
    /\ pc = "while"
    /\ stepping(time_accumulator)
    /\ class = "Subclass"
    /\ trace' = <<Call("update_state", 0, DT)>>
    /\ pc' = "for_advance"
    /\ idx' = 1
    /\ UNCHANGED <<probe, class, time_accumulator, time_scale, t, steps_taken, bodies,
                   counter, frame_time, alpha, next_id, clicks, outcome, iterations,
                   entry, sum_frame_time, in_range>>

\* line 118 in another subclass: its update_state throws, which leaves
\* simulate()
UpdateStateSubclassThrows ==
    /\ pc = "while"
    /\ stepping(time_accumulator)
    /\ class = "Subclass"
    /\ pc' = "idle"
    /\ outcome' = "threw"
    /\ Forget
    /\ in_range' = FALSE
    /\ sum_frame_time' = 0
    /\ UNCHANGED <<probe, class, time_accumulator, time_scale, t, steps_taken, bodies,
                   counter, next_id, clicks>>

\* the body pushed by lines 299-303 in hook invocation k, if any
Spawned(k, id) ==
    IF k % 8 = 0
    THEN {<<emplace(Body(id, 1, FALSE), loc, v, spin)>> :
             loc \in SpawnLocations, v \in SpawnVelocities, spin \in Spins}
    ELSE {<<>>}

\* line 118 in a Group: the whole of Group.update_state
UpdateStateGroup ==
    /\ pc = "while"
    /\ stepping(time_accumulator)
    /\ class = "Group"
    /\ counter' = counter + 1
    /\ \E new \in Spawned(counter + 1, next_id) :
          /\ bodies' = update_state(bodies \o new, DT, counter + 1)
          /\ next_id' = next_id + Len(new)
    /\ trace' = <<Call("update_state", 0, DT)>>
    /\ pc' = "for_advance"
    /\ idx' = 1
    /\ UNCHANGED <<probe, class, time_accumulator, time_scale, t, steps_taken, frame_time,
                   alpha, clicks, outcome, iterations, entry, sum_frame_time,
                   in_range>>

\* every other body is passed over
AdvanceBody_skip ==
    /\ pc = "for_advance"
    /\ idx <= Len(bodies)
    /\ bodies' = [bodies EXCEPT ![idx] = advance(@, DT)]
    /\ trace' = Append(trace, Call("advance", bodies[idx].id, DT))
    /\ idx' = idx + 2
    /\ UNCHANGED <<probe, class, time_accumulator, time_scale, t, steps_taken, counter, pc,
                   frame_time, alpha, next_id, clicks, outcome, iterations, entry,
                   sum_frame_time, in_range>>

\* lines 119-120, one body per step
AdvanceBody ==
    /\ pc = "for_advance"
    /\ idx <= Len(bodies)
    /\ bodies' = [bodies EXCEPT ![idx] = advance(@, DT)]
    /\ trace' = Append(trace, Call("advance", bodies[idx].id, DT))
    /\ idx' = idx + 1
    /\ UNCHANGED <<probe, class, time_accumulator, time_scale, t, steps_taken, counter, pc,
                   frame_time, alpha, next_id, clicks, outcome, iterations, entry,
                   sum_frame_time, in_range>>

\* lines 123-124: the clock and the accumulator move by dt, in the direction of
\* the scaled frame time
tick_forward(clock, ft) == clock + DT
tick(clock, ft) == clock + Sign(ft) * DT
consume_all(acc, ft) == 0
consume(acc, ft) == acc - Sign(ft) * DT

\* line 125, steps_taken++: a count that has reached MaxSteps stays there
count(n) == IF n < MaxSteps THEN n + 1 ELSE n

\* lines 123-125
StepClocks ==
    /\ pc = "for_advance"
    /\ idx > Len(bodies)
    /\ t' = tick(t, frame_time)
    /\ time_accumulator' = consume(time_accumulator, frame_time)
    /\ steps_taken' = count(steps_taken)
    /\ iterations' = count(iterations)
    /\ pc' = "while"
    /\ UNCHANGED <<probe, class, time_scale, bodies, counter, frame_time, idx, alpha,
                   next_id, clicks, outcome, trace, entry, sum_frame_time, in_range>>

\* line 130: alpha = time_accumulator / dt, kept as its numerator over DT
interpolation(acc) == acc

ComputeAlpha ==
    /\ pc = "while"
    /\ ~stepping(time_accumulator)
    /\ alpha' = interpolation(time_accumulator)
    /\ pc' = "for_blend"
    /\ idx' = 1
    /\ trace' = <<>>
    /\ UNCHANGED <<probe, class, time_accumulator, time_scale, t, steps_taken, bodies,
                   counter, frame_time, next_id, clicks, outcome, iterations, entry,
                   sum_frame_time, in_range>>

\* a frame without a fixed step is not blended
BlendBody_stepped ==
    /\ pc = "for_blend"
    /\ idx <= Len(bodies)
    /\ IF iterations > 0
       THEN /\ bodies' = [bodies EXCEPT ![idx] = blend_state(@, alpha)]
            /\ trace' = Append(trace, Call("blend_state", bodies[idx].id, alpha))
       ELSE UNCHANGED <<bodies, trace>>
    /\ idx' = idx + 1
    /\ UNCHANGED <<probe, class, time_accumulator, time_scale, t, steps_taken, counter, pc,
                   frame_time, alpha, next_id, clicks, outcome, iterations, entry,
                   sum_frame_time, in_range>>

\* line 131, one body per step
BlendBody ==
    /\ pc = "for_blend"
    /\ idx <= Len(bodies)
    /\ bodies' = [bodies EXCEPT ![idx] = blend_state(@, alpha)]
    /\ trace' = Append(trace, Call("blend_state", bodies[idx].id, alpha))
    /\ idx' = idx + 1
    /\ UNCHANGED <<probe, class, time_accumulator, time_scale, t, steps_taken, counter, pc,
                   frame_time, alpha, next_id, clicks, outcome, iterations, entry,
                   sum_frame_time, in_range>>

\* line 132: simulate() returns
Return ==
    /\ pc = "for_blend"
    /\ idx > Len(bodies)
    /\ pc' = "idle"
    /\ outcome' = "returned"
    /\ Forget
    /\ UNCHANGED <<probe, class, time_accumulator, time_scale, t, steps_taken, bodies,
                   counter, next_id, clicks, sum_frame_time, in_range>>

Next ==
    \/ SpeedUpTime
    \/ SlowDownTime
    \/ MouseDown
    \/ Simulate
    \/ UpdateStateBase
    \/ UpdateStateSubclass
    \/ UpdateStateSubclassThrows
    \/ UpdateStateGroup
    \/ AdvanceBody
    \/ StepClocks
    \/ ComputeAlpha
    \/ BlendBody
    \/ Return

Spec == Init /\ [][Next]_vars

\* simulate() runs to its end on the calling thread: a call under way takes its
\* next step.  Nothing obliges anyone to call it, to click or to press a button.
Fairness == WF_vars(pc # "idle" /\ Next)
FairSpec == Spec /\ Fairness

\* ------------------------------------------------------- a Body by itself
\* A Body outside any scene: emplaced, then advanced and blended in any order,
\* as advance() and blend_state() are public methods of an exported class.
BodyLocations == {vec3(0, 0, 0), vec3(50 * Res, 25 * Res, 0)}
BodyVelocities == {vec3(Res, 0, 0), vec3(0, -2 * Res, 0), vec3(-25 * Res, 0, -25 * Res)}
BodySpins == {0, 2000}
BodySizes == {1, 2}
\* time_amount of advance(), in ticks, and alpha of blend_state(), over DT
TimeAmounts == {DT, 2 * DT}
Alphas == {0, 4, DT \div 2, DT}
MaxAdvances == 2

\* no scene: the fields of a Simulation at their constructed values
NoScene ==
    /\ class = "none"
    /\ time_accumulator = 0
    /\ time_scale = 1
    /\ steps_taken = 0
    /\ t = 0
    /\ counter = 0
    /\ sum_frame_time = 0
    /\ outcome = "none"
    /\ frame_time = 0
    /\ idx = 0
    /\ next_id = 1
    /\ clicks = 0
    /\ iterations = 0
    /\ entry = NoEntry
    /\ in_range = TRUE

InitBody ==
    /\ NoScene
    /\ pc = "body"
    /\ alpha = 0
    /\ trace = <<>>
    /\ probe = NoProbe
    /\ \E size \in BodySizes, location \in BodyLocations,
          v \in BodyVelocities, spin \in BodySpins :
          bodies = <<emplace(Body(1, size, FALSE), location, v, spin)>>

BodyAdvance ==
    /\ pc = "body"
    /\ bodies[1].advances < MaxAdvances
    /\ \E time_amount \in TimeAmounts :
          /\ bodies' = <<advance(bodies[1], time_amount)>>
          /\ trace' = <<Call("advance", 1, time_amount)>>
    /\ UNCHANGED <<probe, class, time_accumulator, time_scale, t, steps_taken, counter, pc,
                   frame_time, idx, alpha, next_id, clicks, outcome, iterations,
                   entry, sum_frame_time, in_range>>

BodyBlend ==
    /\ pc = "body"
    /\ \E a \in Alphas :
          /\ bodies' = <<blend_state(bodies[1], a)>>
          /\ alpha' = a
          /\ trace' = <<Call("blend_state", 1, a)>>
    /\ UNCHANGED <<probe, class, time_accumulator, time_scale, t, steps_taken, counter, pc,
                   frame_time, idx, next_id, clicks, outcome, iterations,
                   entry, sum_frame_time, in_range>>

NextBody ==
    \/ BodyAdvance
    \/ BodyBlend

BodySpec == InitBody /\ [][NextBody]_vars

\* ------------------------------------------------------ the point tests
\* Body.intersect_cube and Body.intersect_sphere called on a point and a margin
\* (0 when left out; 0.1, 1 and 2 are the leeways of Group's colliders).
Coordinates == {-(Res + Res \div 100), -Res, 0, Res, Res + Res \div 100}
Points == {vec3(x, y, z) : x \in Coordinates, y \in Coordinates, z \in Coordinates}
Margins == {0, Res \div 10, Res, 2 * Res}

InitIntersect ==
    /\ NoScene
    /\ pc = "probe"
    /\ alpha = 0
    /\ trace = <<>>
    /\ bodies = <<>>
    /\ \E p \in Points, margin \in Margins :
          probe = [op |-> "none", p |-> p, margin |-> margin, result |-> FALSE]

IntersectCube ==
    /\ pc = "probe"
    /\ probe' = [probe EXCEPT !.op = "intersect_cube",
                              !.result = intersect_cube(probe.p, probe.margin)]
    /\ UNCHANGED <<class, time_accumulator, time_scale, t, steps_taken, bodies,
                   counter, pc, frame_time, idx, alpha, next_id, clicks, outcome,
                   iterations, trace, entry, sum_frame_time, in_range>>

IntersectSphere ==
    /\ pc = "probe"
    /\ probe' = [probe EXCEPT !.op = "intersect_sphere",
                              !.result = intersect_sphere(probe.p, probe.margin)]
    /\ UNCHANGED <<class, time_accumulator, time_scale, t, steps_taken, bodies,
                   counter, pc, frame_time, idx, alpha, next_id, clicks, outcome,
                   iterations, trace, entry, sum_frame_time, in_range>>

NextIntersect ==
    \/ IntersectCube
    \/ IntersectSphere

IntersectSpec == InitIntersect /\ [][NextIntersect]_vars

\* ------------------------------------------------------------------ claims
Returned == pc = "idle" /\ outcome = "returned"
\* simulate() has computed alpha and blended every body: it is about to return
Returning == pc = "for_blend" /\ idx > Len(bodies)
\* a fixed step has advanced every body: the clocks are about to move
Stepped == pc = "for_advance" /\ idx > Len(bodies)

\* C1: after every simulate() call that returns normally, whatever the frame
\* time and the time scale, |time_accumulator| < dt.
C1_AccumulatorBelowStep == (Returning \/ Returned) => Abs(time_accumulator) < DT

\* a call in reverse at five times the speed took fixed steps and is returning
\* with a remainder
C1_Witness ==
    /\ Returning
    /\ time_scale = 5
    /\ frame_time < 0
    /\ iterations >= 2
    /\ time_accumulator = -(DT - 2)

\* C2: while time_scale = 1, every frame time lies in [0, 0.1 s] and every call
\* returned normally, the fixed steps taken from a zero accumulator number
\* floor(T / dt) for the sum T of the frame times: |steps_taken * dt - T| < dt.
C2_StepCountDrift ==
    (pc = "idle" /\ in_range) =>
        /\ steps_taken = sum_frame_time \div DT
        /\ Abs(steps_taken * DT - sum_frame_time) < DT

\* two or more steps into such a run, with the largest remainder
C2_Witness ==
    /\ Returned
    /\ in_range
    /\ class = "Group"
    /\ steps_taken >= WarmSteps + 2
    /\ sum_frame_time = steps_taken * DT + 8

\* C3: no simulate() call runs the fixed-step loop more than 0.1 / dt = 2
\* times, whatever the frame time and the time scale.
C3_PerCallStepBound == iterations <= CLAMP \div DT

\* simulate(0.12) is running, entered with time_scale = 1 and a zero accumulator
C4_Call ==
    /\ outcome = "running"
    /\ time_scale = 1
    /\ frame_time = 24
    /\ entry.time_accumulator = 0

\* C4: from time_accumulator = 0 with time_scale = 1, simulate(0.12) makes the
\* accumulator 0.12, takes two fixed steps, leaves 0.02 and blends with
\* alpha = 0.4.
C4_Scenario ==
    /\ (C4_Call /\ pc = "while" /\ iterations = 0) => time_accumulator = 24
    /\ (C4_Call /\ pc = "for_blend") =>
           /\ iterations = 2
           /\ time_accumulator = 4
           /\ 10 * alpha = 4 * DT

\* C4 as amended: the call makes the accumulator 0.1 (the frame time is clamped),
\* takes two fixed steps, leaves 0 and blends with alpha = 0.
C4_ClampedScenario ==
    /\ (C4_Call /\ pc = "while" /\ iterations = 0) => time_accumulator = CLAMP
    /\ (C4_Call /\ pc = "for_blend") =>
           /\ iterations = 2
           /\ time_accumulator = 0
           /\ alpha = 0

\* the call is returning from a scene that holds a body
C4_Witness == C4_Call /\ Returning /\ Len(bodies) > 0

Ids(bs) == {bs[k].id : k \in 1..Len(bs)}

\* C5: in one fixed step the hook is called once, with dt, before any body is
\* advanced; then advance(dt) is called once on every body of `bodies`, in
\* order; t, time_accumulator and steps_taken move only after that.
StepCalls(bs, n) ==
    <<Call("update_state", 0, DT)>> \o [k \in 1..n |-> Call("advance", bs[k].id, DT)]

C5_StepOrder ==
    /\ [](pc = "for_advance" =>
             /\ idx <= Len(bodies) + 1
             /\ trace = StepCalls(bodies, idx - 1))
    /\ [][(\/ t' # t
           \/ steps_taken' # steps_taken
           \/ (pc # "idle" /\ time_accumulator' # time_accumulator))
          => (Stepped /\ trace = StepCalls(bodies, Len(bodies)))]_vars

\* the hook of this step has spawned a body and dropped another; every body
\* left has been advanced
C5_Witness ==
    /\ Stepped
    /\ iterations = 0
    /\ Len(bodies) > 0
    /\ Ids(bodies) \ Ids(entry.bodies) # {}
    /\ Ids(entry.bodies) \ Ids(bodies) # {}

\* C6: the pose a hook invocation uses to collision-test a body (its
\* drawn_location, which the hook leaves alone) is the body's center and
\* rotation as the latest advance() left them.
C6_FreshCollisionPose ==
    (pc = "for_advance" /\ idx = 1) =>
        \A k \in 1..Len(bodies) :
            bodies[k].tested_at = counter =>
                /\ bodies[k].drawn_location.center = bodies[k].center
                /\ bodies[k].drawn_location.rotation = Turn(bodies[k].rotation)

\* C7: a returning simulate() call has called blend_state(alpha), with
\* alpha = time_accumulator / dt, once on every body, also when it took no fixed
\* step; such a call has changed nothing but time_accumulator and the bodies'
\* drawn_location.
C7_BlendAlways ==
    Returning =>
        /\ alpha = time_accumulator
        /\ trace = [k \in 1..Len(bodies) |-> Call("blend_state", bodies[k].id, alpha)]
        /\ \A k \in 1..Len(bodies) :
               bodies[k].drawn_location = blend_state(bodies[k], alpha).drawn_location
        /\ iterations = 0 =>
               /\ t = entry.t
               /\ steps_taken = entry.steps_taken
               /\ Len(bodies) = Len(entry.bodies)
               /\ \A k \in 1..Len(bodies) :
                      bodies[k] = [entry.bodies[k] EXCEPT
                                      !.drawn_location = bodies[k].drawn_location]

\* a call without a fixed step is returning, having moved the drawn place of a
\* body between its two latest centres
C7_Witness ==
    /\ Returning
    /\ iterations = 0
    /\ Len(bodies) > 0
    /\ bodies[1].drawn_location # entry.bodies[1].drawn_location
    /\ bodies[1].drawn_location.center # bodies[1].previous.center
    /\ bodies[1].drawn_location.center # bodies[1].center

\* C8: the alpha simulate() hands to blend_state lies in [0, 1].
C8_AlphaInUnitInterval == pc = "for_blend" => (0 <= alpha /\ alpha <= DT)

\* C9: advance(dt) leaves in previous the center and rotation the body had when
\* it was called, and in center the previous center plus linear_velocity * dt;
\* a body not yet advanced has previous equal to its center and rotation.
C9_PreviousState ==
    /\ [](\A k \in 1..Len(bodies) :
             bodies[k].advances = 0 =>
                 bodies[k].previous = [center |-> bodies[k].center,
                                       rotation |-> bodies[k].rotation])
    /\ [][(pc = "for_advance" /\ idx <= Len(bodies) /\ idx' = idx + 1) =>
             /\ bodies'[idx].previous = [center |-> bodies[idx].center,
                                         rotation |-> bodies[idx].rotation]
             /\ bodies'[idx].center =
                    plus(bodies'[idx].previous.center,
                         times(bodies'[idx].linear_velocity, DT))]_vars

\* a body has just been advanced for at least the second time, moving and turning
C9_Witness ==
    /\ pc = "for_advance"
    /\ idx > 1
    /\ bodies[idx - 1].advances >= 2
    /\ bodies[idx - 1].previous.center # bodies[idx - 1].center
    /\ bodies[idx - 1].previous.rotation # bodies[idx - 1].rotation

\* C10: along every axis on which the hook has never assigned a body's
\* velocity, the center after n advance(dt) calls is the center at emplace plus
\* n * dt * the velocity, however the n steps fall into simulate() calls.
C10_LinearExtrapolation ==
    \A k \in 1..Len(bodies) : \A i \in 1..3 :
        i \notin bodies[k].touched =>
            bodies[k].center[i] =
                bodies[k].born.center[i]
                + (bodies[k].advances * DT * bodies[k].born.linear_velocity[i]) \div Sec

\* three steps, not all of one call, have carried a body along an axis the hook
\* leaves alone
C10_Witness ==
    /\ pc = "for_advance"
    /\ iterations = 0
    /\ \E k \in 1..Len(bodies) : \E i \in 1..3 :
          /\ i \notin bodies[k].touched
          /\ bodies[k].advances = 3
          /\ bodies[k].born.linear_velocity[i] # 0

\* the latest call on the lone Body was blend_state(alpha)
Blended == pc = "body" /\ trace = <<Call("blend_state", 1, alpha)>>

\* C11: blend_state(alpha) puts the drawn place at
\* previous.center + alpha * (center - previous.center), whatever the velocity
\* and whatever was drawn before, and hands size on; so alpha = 0 draws the
\* previous place, alpha = 1 the current one, and a body advanced 0.1 s from
\* (0,0,0) at velocity (1,0,0) is drawn at (0.05,0,0) by blend_state(0.5).
C11_PositionBlend ==
    Blended =>
        LET b == bodies[1]
            drawn == b.drawn_location.center
        IN  /\ \A i \in 1..3 :
                   DT * (drawn[i] - b.previous.center[i])
                       = alpha * (b.center[i] - b.previous.center[i])
            /\ b.drawn_location.size = b.size
            /\ alpha = 0 => drawn = b.previous.center
            /\ alpha = DT => drawn = b.center
            /\ (/\ b.previous.center = vec3(0, 0, 0)
                /\ b.center = vec3(Res \div 10, 0, 0)
                /\ 2 * alpha = DT) => drawn = vec3(Res \div 20, 0, 0)

\* the scenario: a body advanced 0.1 s from the origin at velocity (1,0,0) has
\* just been blended at alpha = 0.5
C11_Witness ==
    /\ Blended
    /\ 2 * alpha = DT
    /\ bodies[1].advances = 1
    /\ bodies[1].previous.center = vec3(0, 0, 0)
    /\ bodies[1].center = vec3(Res \div 10, 0, 0)
    /\ bodies[1].linear_velocity = vec3(Res, 0, 0)

\* C12: a Simulation whose update_state is not overridden throws on its first
\* simulate() call, whatever the frame time, and never completes a simulate()
\* call normally.
C12_FailFast == class = "Simulation" => ~(Returning \/ Returned)

\* C12 as amended: such a Simulation throws in every call in which a fixed step
\* comes due, before a body is advanced or a clock moves, and keeps the
\* accumulator; a call returns normally only when no step came due; no fixed
\* step ever completes.
C12_ThrowsAtFirstStep ==
    /\ [](class = "Simulation" =>
             /\ steps_taken = 0 /\ t = 0 /\ bodies = <<>>
             /\ pc # "for_advance"
             /\ Returning => (iterations = 0 /\ ~stepping(time_accumulator))
             /\ (pc = "idle" /\ outcome = "threw") => stepping(time_accumulator))
    /\ [][(class = "Simulation" /\ pc = "while" /\ stepping(time_accumulator))
             => (pc' = "idle" /\ outcome' = "threw"
                 /\ time_accumulator' = time_accumulator)]_vars

\* calls that added 0.02 s each returned normally, and the call in which the
\* accumulator reached 0.06 s has thrown
C12_Witness ==
    /\ class = "Simulation"
    /\ pc = "idle"
    /\ outcome = "threw"
    /\ time_scale = 1
    /\ time_accumulator = 12

\* a call with a negative scaled frame time is under way
Reversing == outcome = "running" /\ frame_time < 0

\* C13: in a call with a negative scaled frame time every fixed step moves t
\* back by dt and time_accumulator up by dt, and moves every body back along
\* its velocity: its center changes by -linear_velocity * dt.
C13_ReversePlayback ==
    Reversing =>
        /\ t = entry.t - iterations * DT
        /\ pc \in {"while", "for_advance"} =>
               time_accumulator =
                   accumulate(entry.time_accumulator, frame_time) + iterations * DT
        /\ (pc = "for_advance" /\ idx > 1) =>
               bodies[idx - 1].center =
                   plus(bodies[idx - 1].previous.center,
                        times(bodies[idx - 1].linear_velocity, -DT))

\* C14: t never decreases and changes by exactly dt in magnitude in every
\* fixed step; steps_taken never decreases and goes up by exactly 1 in every
\* fixed step; neither changes at any other time.
C14_ClocksMonotone ==
    [][/\ t' >= t
       /\ steps_taken' >= steps_taken
       /\ IF Stepped
          THEN /\ Abs(t' - t) = DT
               /\ steps_taken < MaxSteps => steps_taken' = steps_taken + 1
          ELSE t' = t /\ steps_taken' = steps_taken]_vars

\* C14 as amended: in every fixed step t changes by dt times the sign of the
\* scaled frame time, so it goes back when the frame time is negative; the
\* rest as claimed.
C14_ClocksSigned ==
    [][/\ steps_taken' >= steps_taken
       /\ IF Stepped
          THEN /\ t' = t + Sign(frame_time) * DT
               /\ steps_taken < MaxSteps => steps_taken' = steps_taken + 1
          ELSE t' = t /\ steps_taken' = steps_taken]_vars

\* two fixed steps of a call in reverse have taken t back and steps_taken up
C14_Witness ==
    /\ Reversing
    /\ pc = "while"
    /\ iterations = 2
    /\ t = entry.t - 2 * DT
    /\ steps_taken = entry.steps_taken + 2

\* C15: intersect_cube(p, m) is true exactly when every component of p lies in
\* [-1-m, 1+m], the boundary included ((1,1,1) at m = 0 is inside, (1.01,0,0)
\* is not); intersect_sphere(p, m) is true exactly when p.p < 1+m, the boundary
\* excluded ((0,0,0) at m = 0 is inside, (1,1,1) is not).
C15_Intersections ==
    LET p == probe.p
        m == probe.margin
    IN  /\ probe.op = "intersect_cube" =>
               /\ probe.result <=>
                      Max(Abs(p[1]), Max(Abs(p[2]), Abs(p[3]))) <= Res + m
               /\ (p = vec3(Res, Res, Res) /\ m = 0) => probe.result
               /\ (p = vec3(Res + Res \div 100, 0, 0) /\ m = 0) => ~probe.result
        /\ probe.op = "intersect_sphere" =>
               /\ probe.result <=>
                      p[1] * p[1] + p[2] * p[2] + p[3] * p[3] < Res * Res + m * Res
               /\ (p = vec3(0, 0, 0) /\ m = 0) => probe.result
               /\ (p = vec3(Res, Res, Res) /\ m = 0) => ~probe.result

\* the corner (1,1,1) of the cube has been tested at margin 0 and found inside
C15_Witness ==
    /\ probe.op = "intersect_cube"
    /\ probe.p = vec3(Res, Res, Res)
    /\ probe.margin = 0
    /\ probe.result

\* C16: every simulate() call returns or throws after finitely many loop
\* iterations, whatever the frame time and whatever state earlier calls left,
\* also one in which the hook threw with |time_accumulator| >= dt.
C16_Termination == (pc # "idle") ~> (pc = "idle")

\* the body of the list bs whose identity is id
ById(bs, id) == bs[CHOOSE k \in 1..Len(bs) : bs[k].id = id]

\* C17: a body not yet tested for collision is not hit; a hit body stays hit;
\* hit is set only by a hook invocation that tests the body and finds it
\* colliding, which multiplies the velocity by -0.45 for opm, else by -0.1 for
\* pillars; a hit body is not tested again, and each later hook invocation
\* only adds gravity on y and damps x and z by 0.95.
C17_HitLatch ==
    /\ [](\A k \in 1..Len(bodies) : bodies[k].tested_at = 0 => ~bodies[k].hit)
    /\ [][\A id \in Ids(bodies) \cap Ids(bodies') :
             LET a == ById(bodies, id)
                 b == ById(bodies', id)
                 v == a.linear_velocity
                 w == IF a.user_projectile
                      THEN vec3(v[1], v[2] + Gravity(DT, -49), v[3])
                      ELSE vec3(v[1] + Gravity(DT, -98), v[2], v[3])
             IN  /\ a.hit => b.hit
                 /\ (a.hit /\ counter' = counter) =>
                        b.linear_velocity = v
                 /\ (a.hit /\ counter' # counter) =>
                        /\ b.tested_at = a.tested_at
                        /\ b.linear_velocity =
                               vec3((v[1] * 95) \div 100, v[2] + Gravity(DT, -98),
                                    (v[3] * 95) \div 100)
                 /\ (~a.hit /\ b.hit) =>
                        /\ counter' # counter
                        /\ b.tested_at = counter'
                        /\ check_if_colliding(a, opm) \/ check_if_colliding(a, pillars)
                        /\ b.linear_velocity =
                               IF check_if_colliding(a, opm)
                               THEN scaled(w, -45, 100)
                               ELSE scaled(w, -10, 100)]_vars

\* the hook has just run over a body that an earlier invocation found
\* colliding, and that still lies where it would collide
C17_Witness ==
    /\ pc = "for_advance"
    /\ idx = 1
    /\ \E k \in 1..Len(bodies) :
          /\ bodies[k].hit
          /\ bodies[k].tested_at < counter
          /\ check_if_colliding(bodies[k], opm) \/ check_if_colliding(bodies[k], pillars)

====
